---- MODULE Spec2Model ----
(***************************************************************************)
(* A model of scripts/build.py: the packaging script that copies or zips   *)
(* the build output of each plugin into a destination directory.           *)
(*                                                                         *)
(* The filesystem is a function from paths (sequences of names) to nodes.  *)
(* main() is split at its filesystem calls, so that the order of checks    *)
(* and effects is visible; `accessed' records the paths main() has         *)
(* stat'ed, `visited' the files written into the archive being packed,     *)
(* `fs0' the filesystem at the start of the current run and `prev' the     *)
(* arguments and outcome of the run before it.                             *)
(***************************************************************************)
EXTENDS Integers, Sequences, FiniteSets, TLC

VARIABLES argv, fs, pc, err, i, handles, stack, root, files,
          accessed, visited, fs0, prev, runs

vars == <<argv, fs, pc, err, i, handles, stack, root, files,
          accessed, visited, fs0, prev, runs>>

(* ------------------------------ bounds -------------------------------- *)

\* Number of invocations of the script on the same filesystem.
MaxRuns == 2

\* Largest len(sys.argv) tried (the program name included).
MaxArgc == 4

(* ------------------------- program constants -------------------------- *)

configuration == "Debug"

target == "net462"

plugins == <<"F95ZoneMetadata", "DLSiteMetadata">>

(* ------------------------------ nodes --------------------------------- *)

Absent == [kind |-> "none", data |-> 0, entries |-> <<>>]

Dir == [kind |-> "dir", data |-> 0, entries |-> <<>>]

\* A regular file with byte content c.
File(c) == [kind |-> "file", data |-> c, entries |-> <<>>]

\* A regular file that is a zip archive with the given entries.
Zip(es) == [kind |-> "file", data |-> 0, entries |-> es]

(* ------------------------------ paths --------------------------------- *)

\* os.path.join(path, name)
join(path, name) == Append(path, name)

IsUnder(p, base) == Len(base) <= Len(p) /\ SubSeq(p, 1, Len(base)) = base

Rel(p, base) == SubSeq(p, Len(base) + 1, Len(p))

\* os.path.basename
basename(p) == p[Len(p)]

\* os.path.exists
exists(f, path) == path \in DOMAIN f /\ f[path].kind # "none"

\* os.path.isdir
isdir(f, path) == path \in DOMAIN f /\ f[path].kind = "dir"

\* validate_path without the is_dir test.
validate_path_exists_only(f, path) ==
    IF ~ exists(f, path) THEN "FileNotFoundError" ELSE "none"

\* validate_path: the name of the exception raised, "none" when it returns.
validate_path(f, path) ==
    IF ~ exists(f, path) THEN "FileNotFoundError"
    ELSE IF ~ isdir(f, path) THEN "NotADirectoryError"
    ELSE "none"

\* The path get_build_output_path joins together.
build_output_of(plugin_path) ==
    join(join(join(plugin_path, "bin"), configuration), target)

(* --------------------- locals of main(), as operators ----------------- *)

\* os.path.abspath(sys.argv[2]); argv[1] here is the program name.
output_path == <<argv[3]>>

src_path == <<"src">>

mode == argv[2]

plugin == plugins[i]

plugin_path == join(src_path, plugin)

build_output_path == build_output_of(plugin_path)

\* plugin_output_path computed from the first plugin of the list, whatever
\* the current one.
plugin_output_path_first == join(output_path, plugins[1])

plugin_output_path == join(output_path, plugin)

zip_output_path == join(output_path, plugin \o ".zip")

(* -------------------------- sample filesystems ------------------------ *)

\* Build output {a.txt, sub/b.txt}.
TreeNested ==
    (<<"a.txt">> :> File(1)) @@ (<<"sub">> :> Dir) @@ (<<"sub", "b.txt">> :> File(2))

\* Build output {a/x.txt, b/x.txt} with different contents.
TreeCollide ==
    (<<"a">> :> Dir) @@ (<<"a", "x.txt">> :> File(1)) @@
    (<<"b">> :> Dir) @@ (<<"b", "x.txt">> :> File(2))

\* What a destination directory may hold before the run.
TreeStale ==
    (<<"stale.txt">> :> File(3)) @@ (<<"sub">> :> Dir) @@ (<<"sub", "b.txt">> :> File(3))

NoTree == [r \in {} |-> Absent]

Trees == {TreeNested, TreeCollide}

RelUniverse == DOMAIN TreeNested \cup DOMAIN TreeCollide \cup DOMAIN TreeStale

\* An archive left by an earlier build.
StaleZip == Zip(<<[name |-> "a.txt", data |-> 3], [name |-> "old.txt", data |-> 3]>>)

PluginSet == {plugins[k] : k \in 1..Len(plugins)}

Other == <<"out", "other.txt">>

AllPaths ==
    {<<"out">>, <<"src">>, Other}
    \cup UNION {
        LET pp == <<"src", P>>
            bo == build_output_of(pp)
        IN  {pp, join(pp, "bin"), join(join(pp, "bin"), configuration), bo}
            \cup {bo \o r : r \in RelUniverse}
            \cup {<<"out", P>>, <<"out", P \o ".zip">>}
            \cup {<<"out", P>> \o r : r \in RelUniverse}
        : P \in PluginSet }

\* The tree `tree' mounted at directory `base'.
Mount(base, tree) ==
    (base :> Dir) @@ [p \in {base \o r : r \in DOMAIN tree} |-> tree[Rel(p, base)]]

SrcKinds == {"noplugin", "pluginfile", "nobuild", "buildfile", "tree"}

SrcLayouts ==
    {[kind |-> k, tree |-> NoTree] : k \in SrcKinds \ {"tree"}}
    \cup {[kind |-> "tree", tree |-> t] : t \in Trees}

\* The source side of plugin P.
SrcOf(P, lay) ==
    LET pp == <<"src", P>>
        bin == join(pp, "bin")
        cfg == join(bin, configuration)
        bo == build_output_of(pp)
        upto == (pp :> Dir) @@ (bin :> Dir) @@ (cfg :> Dir)
    IN  CASE lay.kind = "noplugin" -> (pp :> Absent)
          [] lay.kind = "pluginfile" -> (pp :> File(4))
          [] lay.kind = "nobuild" -> upto
          [] lay.kind = "buildfile" -> upto @@ (bo :> File(4))
          [] OTHER -> upto @@ Mount(bo, lay.tree)

\* What the destination holds for a plugin before the run: nothing; a stale
\* directory <destination>/P and a stale archive <destination>/P.zip; or a
\* regular file at <destination>/P and a directory at <destination>/P.zip.
DstKinds == {"clean", "stale", "blocked"}

\* <destination>/P before the run.
DstOf(P, k) ==
    CASE k = "clean" -> (<<"out", P>> :> Absent)
      [] k = "blocked" -> (<<"out", P>> :> File(5))
      [] OTHER -> Mount(<<"out", P>>, TreeStale)

\* <destination>/P.zip before the run.
ZipOf(P, k) ==
    CASE k = "clean" -> (<<"out", P \o ".zip">> :> Absent)
      [] k = "blocked" -> (<<"out", P \o ".zip">> :> Dir)
      [] OTHER -> (<<"out", P \o ".zip">> :> StaleZip)

RootKinds == {"none", "file", "dir"}

RootOf(p, k) ==
    CASE k = "none" -> (p :> Absent)
      [] k = "file" -> (p :> File(6))
      [] OTHER -> (p :> Dir)

\* A path exists only below directories.
WellFormed(raw) ==
    [p \in AllPaths |->
        IF \E n \in 1..(Len(p) - 1) : raw[SubSeq(p, 1, n)].kind # "dir"
        THEN Absent ELSE raw[p]]

InitFs(outK, srcK, lay) ==
    LET P1 == plugins[1]
        P2 == plugins[2]
        raw == RootOf(<<"out">>, outK) @@ RootOf(<<"src">>, srcK) @@ (Other :> File(6))
               @@ SrcOf(P1, lay[1].src) @@ DstOf(P1, lay[1].dst) @@ ZipOf(P1, lay[1].dst)
               @@ SrcOf(P2, lay[2].src) @@ DstOf(P2, lay[2].dst) @@ ZipOf(P2, lay[2].dst)
               @@ [p \in AllPaths |-> Absent]
    IN  WellFormed(raw)

Modes == {"copy", "pack", "zip"}

\* sys.argv: the program name, then the positional arguments.
Argvs ==
    {<<"build.py">>, <<"build.py", "copy">>}
    \cup {<<"build.py", m, "out">> : m \in Modes}
    \cup {[k \in 1..n |-> IF k = 1 THEN "build.py" ELSE IF k = 2 THEN "copy"
                          ELSE IF k = 3 THEN "out" ELSE "extra"] : n \in 4..MaxArgc}

Layouts == [src : SrcLayouts, dst : DstKinds]

Init ==
    /\ argv \in Argvs
    /\ \E outK \in RootKinds, srcK \in RootKinds, l1 \in Layouts, l2 \in Layouts :
          fs = InitFs(outK, srcK, <<l1, l2>>)
    /\ fs0 = fs
    /\ pc = "start"
    /\ err = "none"
    /\ i = 0
    /\ handles = {}
    /\ stack = <<>>
    /\ root = <<>>
    /\ files = {}
    /\ accessed = <<>>
    /\ visited = <<>>
    /\ prev = [argv |-> <<>>, pc |-> "none"]
    /\ runs = 1

(* ------------------------------ main() -------------------------------- *)

\* An exception leaves main(): the run ends with that error.
Raise(e) ==
    /\ pc' = "failed"
    /\ err' = e

\* CheckArgs with the test len(sys.argv) < 3.
CheckArgsAtLeast ==
    /\ pc = "start"
    /\ IF Len(argv) < 3
       THEN Raise("ValueError: Not enough arguments!")
       ELSE pc' = "validate_output" /\ err' = err
    /\ UNCHANGED <<argv, fs, i, handles, stack, root, files, accessed, visited, fs0, prev, runs>>

\* if len(sys.argv) != 3: raise ValueError("Not enough arguments!")
CheckArgs ==
    /\ pc = "start"
    /\ IF Len(argv) # 3
       THEN Raise("ValueError: Not enough arguments!")
       ELSE pc' = "validate_output" /\ err' = err
    /\ UNCHANGED <<argv, fs, i, handles, stack, root, files, accessed, visited, fs0, prev, runs>>

\* validate_path(output_path)
ValidateOutput ==
    /\ pc = "validate_output"
    /\ accessed' = Append(accessed, output_path)
    /\ IF validate_path(fs, output_path) # "none"
       THEN Raise(validate_path(fs, output_path))
       ELSE pc' = "validate_src" /\ err' = err
    /\ UNCHANGED <<argv, fs, i, handles, stack, root, files, visited, fs0, prev, runs>>

\* validate_path(src_path)
ValidateSrc ==
    /\ pc = "validate_src"
    /\ accessed' = Append(accessed, src_path)
    /\ IF validate_path(fs, src_path) # "none"
       THEN Raise(validate_path(fs, src_path))
       ELSE pc' = "for" /\ err' = err
    /\ UNCHANGED <<argv, fs, i, handles, stack, root, files, visited, fs0, prev, runs>>

\* for plugin in plugins: the next plugin, or the end of main().
ForPlugin ==
    /\ pc = "for"
    /\ IF i < Len(plugins)
       THEN i' = i + 1 /\ pc' = "validate_plugin"
       ELSE i' = i /\ pc' = "done"
    /\ UNCHANGED <<argv, fs, err, handles, stack, root, files, accessed, visited, fs0, prev, runs>>

\* validate_path(plugin_path)
ValidatePlugin ==
    /\ pc = "validate_plugin"
    /\ accessed' = Append(accessed, plugin_path)
    /\ IF validate_path(fs, plugin_path) # "none"
       THEN Raise(validate_path(fs, plugin_path))
       ELSE pc' = "get_build_output" /\ err' = err
    /\ UNCHANGED <<argv, fs, i, handles, stack, root, files, visited, fs0, prev, runs>>

\* GetBuildOutputPath without the validate_path call.
GetBuildOutputPathUnchecked ==
    /\ pc = "get_build_output"
    /\ pc' = "dispatch"
    /\ UNCHANGED <<argv, fs, err, i, handles, stack, root, files, accessed, visited, fs0, prev, runs>>

\* build_output_path = get_build_output_path(plugin_path)
GetBuildOutputPath ==
    /\ pc = "get_build_output"
    /\ accessed' = Append(accessed, build_output_path)
    /\ IF validate_path(fs, build_output_path) # "none"
       THEN Raise(validate_path(fs, build_output_path))
       ELSE pc' = "dispatch" /\ err' = err
    /\ UNCHANGED <<argv, fs, i, handles, stack, root, files, visited, fs0, prev, runs>>

(* ------------------------------ copy mode ----------------------------- *)

\* rmtree that removes the directory entry and leaves what is below it.
rmtree_top(f, path) ==
    [p \in DOMAIN f |-> IF p = path THEN Absent ELSE f[p]]

\* shutil.rmtree(path): path and everything below it is gone.
rmtree(f, path) ==
    [p \in DOMAIN f |-> IF IsUnder(p, path) THEN Absent ELSE f[p]]

\* copytree that copies the directory and its direct entries only.
copytree_shallow(f, src, dst) ==
    [p \in DOMAIN f |->
        IF IsUnder(p, dst) /\ Len(p) <= Len(dst) + 1
                           /\ (src \o Rel(p, dst)) \in DOMAIN f
                           /\ exists(f, src \o Rel(p, dst))
        THEN f[src \o Rel(p, dst)]
        ELSE f[p]]

\* shutil.copytree(src, dst): dst is created and every entry below src is
\* copied to the same relative path below dst.
copytree(f, src, dst) ==
    [p \in DOMAIN f |->
        IF IsUnder(p, dst) /\ (src \o Rel(p, dst)) \in DOMAIN f
                           /\ exists(f, src \o Rel(p, dst))
        THEN f[src \o Rel(p, dst)]
        ELSE f[p]]

\* if mode == "copy": if os.path.exists(plugin_output_path): shutil.rmtree(..)
\* rmtree raises NotADirectoryError on a path that is not a directory.
CopyRemove ==
    /\ pc = "dispatch"
    /\ mode = "copy"
    /\ accessed' = Append(accessed, plugin_output_path)
    /\ IF exists(fs, plugin_output_path)
       THEN IF isdir(fs, plugin_output_path)
            THEN fs' = rmtree(fs, plugin_output_path)
                 /\ pc' = "copytree" /\ err' = err
            ELSE fs' = fs /\ Raise("NotADirectoryError")
       ELSE fs' = fs /\ pc' = "copytree" /\ err' = err
    /\ UNCHANGED <<argv, i, handles, stack, root, files, visited, fs0, prev, runs>>

\* shutil.copytree(build_output_path, plugin_output_path); copytree raises
\* FileExistsError when the destination exists.
CopyTree ==
    /\ pc = "copytree"
    /\ IF exists(fs, plugin_output_path)
       THEN fs' = fs /\ Raise("FileExistsError")
       ELSE fs' = copytree(fs, build_output_path, plugin_output_path)
            /\ pc' = "for" /\ err' = err
    /\ UNCHANGED <<argv, i, handles, stack, root, files, accessed, visited, fs0, prev, runs>>

(* ------------------------------ pack mode ----------------------------- *)

\* The entries of a directory, as os.scandir lists them.
Children(f, d) ==
    {p \in DOMAIN f : Len(p) = Len(d) + 1 /\ IsUnder(p, d) /\ f[p].kind # "none"}

\* The orders in which a set of paths can be listed.
Orders(S) ==
    {s \in [1..Cardinality(S) -> S] : \A a, b \in 1..Cardinality(S) : a # b => s[a] # s[b]}

\* ZipWrite that replaces an entry of the same name.
ZipWriteReplace(es, arcname, data) ==
    Append(SelectSeq(es, LAMBDA e : e.name # arcname), [name |-> arcname, data |-> data])

\* ZipFile.write(filename, arcname): one more entry at the end of the archive.
ZipWrite(es, arcname, data) == Append(es, [name |-> arcname, data |-> data])

\* PackOpen with the archive opened for appending: old entries are kept.
PackOpenAppend ==
    /\ pc = "dispatch"
    /\ mode = "pack"
    /\ IF isdir(fs, zip_output_path)
       THEN Raise("IsADirectoryError")
            /\ UNCHANGED <<fs, handles, stack>>
       ELSE /\ fs' = [fs EXCEPT ![zip_output_path] = Zip(@.entries)]
            /\ handles' = handles \cup {zip_output_path}
            /\ stack' = <<build_output_path>>
            /\ pc' = "walk" /\ err' = err
    /\ visited' = <<>>
    /\ UNCHANGED <<argv, i, root, files, accessed, fs0, prev, runs>>

\* elif mode == "pack": with zipfile.ZipFile(zip_output_path, "w", ZIP_LZMA):
\* the archive is created empty (truncated if there was one) and os.walk
\* starts at the build output directory.  Opening a directory fails.
PackOpen ==
    /\ pc = "dispatch"
    /\ mode = "pack"
    /\ IF isdir(fs, zip_output_path)
       THEN Raise("IsADirectoryError")
            /\ UNCHANGED <<fs, handles, stack>>
       ELSE /\ fs' = [fs EXCEPT ![zip_output_path] = Zip(<<>>)]
            /\ handles' = handles \cup {zip_output_path}
            /\ stack' = <<build_output_path>>
            /\ pc' = "walk" /\ err' = err
    /\ visited' = <<>>
    /\ UNCHANGED <<argv, i, root, files, accessed, fs0, prev, runs>>

\* for root, dirs, files in os.walk(build_output_path): the next directory,
\* top-down; its subdirectories follow in the order the system lists them.
Walk ==
    /\ pc = "walk"
    /\ files = {}
    /\ stack # <<>>
    /\ LET d == Head(stack)
           sub == {p \in Children(fs, d) : fs[p].kind = "dir"}
       IN  /\ root' = d
           /\ files' = {basename(p) : p \in Children(fs, d) \ sub}
           /\ \E order \in Orders(sub) : stack' = order \o Tail(stack)
    /\ UNCHANGED <<argv, fs, pc, err, i, handles, accessed, visited, fs0, prev, runs>>

\* for file in files: myzip.write(os.path.join(root, file), file)
WriteFile ==
    /\ pc = "walk"
    /\ \E file \in files :
          /\ fs' = [fs EXCEPT ![zip_output_path].entries =
                        ZipWrite(@, file, fs[join(root, file)].data)]
          /\ files' = files \ {file}
          /\ visited' = Append(visited, join(root, file))
    /\ UNCHANGED <<argv, pc, err, i, handles, stack, root, accessed, fs0, prev, runs>>

\* WriteFail without the with statement: the archive stays open.
WriteFailLeak ==
    /\ pc = "walk"
    /\ files # {}
    /\ Raise("OSError")
    /\ UNCHANGED <<argv, fs, i, handles, stack, root, files, accessed, visited, fs0, prev, runs>>

\* myzip.write raises (an I/O error): the with statement closes the archive
\* and the exception leaves main().
WriteFail ==
    /\ pc = "walk"
    /\ files # {}
    /\ handles' = handles \ {zip_output_path}
    /\ Raise("OSError")
    /\ UNCHANGED <<argv, fs, i, stack, root, files, accessed, visited, fs0, prev, runs>>

\* The walk is over: the with statement closes the archive.
PackClose ==
    /\ pc = "walk"
    /\ files = {}
    /\ stack = <<>>
    /\ handles' = handles \ {zip_output_path}
    /\ pc' = "for"
    /\ UNCHANGED <<argv, fs, err, i, stack, root, files, accessed, visited, fs0, prev, runs>>

\* else: raise ValueError(f"Unknown mode: {mode}")
UnknownMode ==
    /\ pc = "dispatch"
    /\ mode \notin {"copy", "pack"}
    /\ Raise("ValueError: Unknown mode")
    /\ UNCHANGED <<argv, fs, i, handles, stack, root, files, accessed, visited, fs0, prev, runs>>

\* The script is invoked again on the filesystem the last run left.
Rerun ==
    /\ pc \in {"done", "failed"}
    /\ runs < MaxRuns
    /\ runs' = runs + 1
    /\ argv' \in Argvs
    /\ prev' = [argv |-> argv, pc |-> pc]
    /\ fs0' = fs
    /\ pc' = "start"
    /\ err' = "none"
    /\ i' = 0
    /\ stack' = <<>>
    /\ root' = <<>>
    /\ files' = {}
    /\ accessed' = <<>>
    /\ visited' = <<>>
    /\ UNCHANGED <<fs, handles>>

Next ==
    \/ CheckArgs
    \/ ValidateOutput
    \/ ValidateSrc
    \/ ForPlugin
    \/ ValidatePlugin
    \/ GetBuildOutputPath
    \/ CopyRemove
    \/ CopyTree
    \/ PackOpen
    \/ Walk
    \/ WriteFile
    \/ WriteFail
    \/ PackClose
    \/ UnknownMode
    \/ Rerun

Spec == Init /\ [][Next]_vars

(* ------------------------------ properties ---------------------------- *)

\* <destination>/P, <destination>/P.zip and the build output directory of
\* the k-th plugin of the list.
PluginOut(k) == join(output_path, plugins[k])

PluginZip(k) == join(output_path, plugins[k] \o ".zip")

PluginBuild(k) == build_output_of(join(src_path, plugins[k]))

\* The regular files at any depth below directory d.
FilesBelow(f, d) == {p \in DOMAIN f : IsUnder(p, d) /\ p # d /\ f[p].kind = "file"}

\* The run is past the validation of the destination.
PastOutput == pc \notin {"start", "validate_output"}

\* C5: with two positional arguments, a destination that does not exist
\* ends the run with FileNotFoundError and one that exists but is not a
\* directory with NotADirectoryError; the destination is then the only path
\* that was checked (the source root was not), no plugin was processed and
\* the filesystem is as it was.
C5_DestinationChecked ==
    (Len(argv) = 3 /\ PastOutput /\ ~ isdir(fs0, output_path)) =>
        /\ pc = "failed"
        /\ err = (IF exists(fs0, output_path) THEN "NotADirectoryError"
                  ELSE "FileNotFoundError")
        /\ accessed = <<output_path>>
        /\ i = 0
        /\ fs = fs0

C5_Witness ==
    /\ Len(argv) = 3
    /\ pc = "failed"
    /\ err = "NotADirectoryError"
    /\ fs0[output_path].kind = "file"
    /\ accessed = <<output_path>>

\* C6: when len(sys.argv) is not 3 (the positional arguments are not exactly
\* two) the run ends with the ValueError of the argument count, no path was
\* checked and the filesystem is as it was; with exactly two the first step
\* after the count is the validation of the destination.
C6_ArgumentCount ==
    /\ (Len(argv) # 3 /\ pc # "start") =>
          /\ pc = "failed"
          /\ err = "ValueError: Not enough arguments!"
          /\ accessed = <<>>
          /\ fs = fs0
    /\ (Len(argv) = 3 /\ pc # "start") =>
          /\ err # "ValueError: Not enough arguments!"
          /\ IF accessed = <<>> THEN pc = "validate_output" /\ fs = fs0
             ELSE accessed[1] = output_path

C6_Witness ==
    /\ Len(argv) > 3
    /\ pc = "failed"
    /\ err = "ValueError: Not enough arguments!"
    /\ exists(fs, <<argv[3]>>)

\* C7: after a successful copy run, for every plugin of the list every path
\* below <destination>/P holds what the same relative path below the
\* plugin's build output directory holds (a file with the same content, a
\* directory, or nothing), and <destination>/P is a directory.
C7_CopyRoundTrip ==
    (pc = "done" /\ mode = "copy") =>
        \A k \in 1..Len(plugins) :
            /\ isdir(fs, PluginOut(k))
            /\ \A p \in DOMAIN fs : IsUnder(p, PluginOut(k)) =>
                  /\ (PluginBuild(k) \o Rel(p, PluginOut(k))) \in DOMAIN fs
                  /\ fs[p] = fs[PluginBuild(k) \o Rel(p, PluginOut(k))]

C7_Witness ==
    /\ pc = "done"
    /\ mode = "copy"
    /\ fs[PluginOut(1) \o <<"a.txt">>] = File(1)
    /\ fs[PluginOut(1) \o <<"sub", "b.txt">>] = File(2)
    /\ ~ exists(fs0, PluginOut(1))

\* C8: after a successful pack run, for every plugin of the list
\* <destination>/P.zip is a file, the names of its entries are exactly the
\* base names of the regular files at any depth of the build output tree,
\* and every entry holds the content of such a file: nothing of an archive
\* that was there before the run is left.
C8_PackEntries ==
    (pc = "done" /\ mode = "pack") =>
        \A k \in 1..Len(plugins) :
            LET es == fs[PluginZip(k)].entries
                src == FilesBelow(fs, PluginBuild(k))
            IN  /\ fs[PluginZip(k)].kind = "file"
                /\ {es[n].name : n \in 1..Len(es)} = {basename(p) : p \in src}
                /\ \A n \in 1..Len(es) : \E p \in src :
                      es[n].name = basename(p) /\ es[n].data = fs[p].data

C8_Witness ==
    /\ pc = "done"
    /\ mode = "pack"
    /\ fs0[PluginZip(1)] = StaleZip
    /\ Len(fs[PluginZip(1)].entries) = 2
    /\ \E n \in 1..2 : fs[PluginZip(1)].entries[n] = [name |-> "a.txt", data |-> 1]

\* C9: an archive is open only while its plugin's directory walk runs: at
\* most one archive, that of the current plugin, is open at any time, and
\* none is open when the run moves to the next plugin or ends, whether the
\* walk ended normally or a write into the archive failed.
C9_ArchiveClosed ==
    /\ Cardinality(handles) <= 1
    /\ pc = "walk" => handles = {zip_output_path}
    /\ pc # "walk" => handles = {}

C9_Witness ==
    /\ pc = "failed"
    /\ err = "OSError"
    /\ handles = {}
    /\ Len(fs[zip_output_path].entries) = 1
    /\ i = 2

\* The last element of a non-empty sequence.
Last(s) == s[Len(s)]

\* The largest element of a non-empty set of numbers.
Max(S) == CHOOSE m \in S : \A n \in S : n <= m

\* C1 (as stated): with two arguments and a mode other than copy and pack,
\* the run ends with the unknown-mode ValueError, whatever the filesystem
\* holds, and no path was checked and no plugin processed before it.
C1_UnknownModeFirst ==
    (pc \in {"failed", "done"} /\ Len(argv) = 3 /\ mode \notin {"copy", "pack"}) =>
        /\ pc = "failed"
        /\ err = "ValueError: Unknown mode"
        /\ accessed = <<>>
        /\ i = 0

\* The archive of the current plugin is complete: its walk ended normally.
Packed == pc \in {"for", "done"} /\ i >= 1 /\ mode = "pack"

\* The base names that two or more files of the k-th build output share.
CollidingNames(k) ==
    {basename(p) : p \in {q \in FilesBelow(fs, PluginBuild(k)) :
        \E r \in FilesBelow(fs, PluginBuild(k)) : r # q /\ basename(r) = basename(q)}}

\* The file of base name n that the walk visited last.
LastVisited(n) ==
    visited[Max({m \in 1..Len(visited) : basename(visited[m]) = n})]

\* The positions of the entries named n in the current plugin's archive.
EntriesNamed(n) ==
    {m \in 1..Len(fs[zip_output_path].entries) : fs[zip_output_path].entries[m].name = n}

\* C2 (as stated): after a plugin was packed, a base name shared by files of
\* different subdirectories has exactly one entry in the archive, and it
\* holds the content of the file the walk visited last.
C2_SingleEntry ==
    Packed =>
        \A n \in CollidingNames(i) :
            /\ Cardinality(EntriesNamed(n)) = 1
            /\ \A m \in EntriesNamed(n) :
                  fs[zip_output_path].entries[m].data = fs[LastVisited(n)].data

\* C2 (amended): after a plugin was packed (the walk ended without error),
\* a base name shared by files of different subdirectories has one entry
\* per such file in the archive, and the last of these entries holds the
\* content of the file the walk visited last.
C2_DuplicateEntries ==
    Packed =>
        \A n \in CollidingNames(i) :
            /\ Cardinality(EntriesNamed(n)) =
                  Cardinality({p \in FilesBelow(fs, build_output_path) : basename(p) = n})
            /\ fs[zip_output_path].entries[Max(EntriesNamed(n))].data
                  = fs[LastVisited(n)].data

C2_Witness ==
    /\ pc = "done"
    /\ mode = "pack"
    /\ CollidingNames(i) = {"x.txt"}
    /\ Len(fs[zip_output_path].entries) = 2
    /\ fs[zip_output_path].entries[2].data = 1

\* Nothing at <destination>/P or <destination>/P.zip has changed since the
\* start of the run, for the k-th plugin and every plugin after it.
Untouched(k) ==
    \A j \in k..Len(plugins) : \A p \in DOMAIN fs :
        (IsUnder(p, PluginOut(j)) \/ p = PluginZip(j)) => fs[p] = fs0[p]

\* The run is in copy or pack mode and the build output directory of the
\* k-th plugin does not exist.
BuildOutputAbsent(k) ==
    /\ Len(argv) = 3
    /\ mode \in {"copy", "pack"}
    /\ ~ exists(fs0, PluginBuild(k))

\* C3 (as stated): if the build output directory of the k-th plugin is
\* absent, the run does not succeed, a run that fails at that plugin ends
\* with FileNotFoundError, and nothing is changed for that plugin or a
\* later one.
C3_PathNotFound ==
    \A k \in 1..Len(plugins) :
        BuildOutputAbsent(k) =>
            /\ pc # "done"
            /\ (pc = "failed" /\ i = k) => err = "FileNotFoundError"
            /\ Untouched(k)

\* C3 (amended): if the build output directory of the k-th plugin is
\* absent, the run does not succeed, a run that fails at that plugin ends
\* with FileNotFoundError, or with NotADirectoryError when <sourceRoot>/P_k
\* exists and is not a directory, and nothing is changed for that plugin or
\* a later one.
C3_FailFast ==
    \A k \in 1..Len(plugins) :
        BuildOutputAbsent(k) =>
            /\ pc # "done"
            /\ (pc = "failed" /\ i = k) =>
                  err = (IF exists(fs0, join(src_path, plugins[k]))
                            /\ ~ isdir(fs0, join(src_path, plugins[k]))
                         THEN "NotADirectoryError" ELSE "FileNotFoundError")
            /\ Untouched(k)

C3_Witness ==
    /\ pc = "failed"
    /\ i = 2
    /\ BuildOutputAbsent(2)
    /\ err = "FileNotFoundError"
    /\ mode = "copy"
    /\ fs # fs0
    /\ exists(fs, PluginOut(2) \o <<"stale.txt">>)

\* The copy branch has looked at <destination>/P for the current plugin.
CopyReached ==
    /\ i >= 1
    /\ mode = "copy"
    /\ accessed # <<>>
    /\ Last(accessed) = plugin_output_path

\* After the removal nothing is left at <destination>/P, and after the copy
\* everything below it comes from the build output.
Replaced ==
    /\ pc # "failed"
    /\ pc = "copytree" =>
          \A p \in DOMAIN fs : IsUnder(p, plugin_output_path) => ~ exists(fs, p)
    /\ pc \in {"for", "done"} =>
          \A p \in DOMAIN fs : (IsUnder(p, plugin_output_path) /\ exists(fs, p)) =>
              /\ (build_output_path \o Rel(p, plugin_output_path)) \in DOMAIN fs
              /\ fs[p] = fs[build_output_path \o Rel(p, plugin_output_path)]

\* A copy run right after a successful copy run with the same arguments
\* succeeds and leaves the filesystem as the first run left it.
CopyTwice ==
    (Len(argv) = 3 /\ mode = "copy" /\ prev = [argv |-> argv, pc |-> "done"]) =>
        /\ pc # "failed"
        /\ pc = "done" => fs = fs0

\* C4 (as stated): in copy mode, whenever <destination>/P exists before the
\* plugin is processed, it is removed before the copy and afterwards holds
\* nothing that is not in the build output; copy twice is copy once.
C4_ExistingRemoved ==
    /\ (CopyReached /\ exists(fs0, plugin_output_path)) => Replaced
    /\ CopyTwice

\* C4 (amended): in copy mode, whenever <destination>/P exists as a
\* directory before the plugin is processed, it is removed before the copy
\* and afterwards holds nothing that is not in the build output; when it
\* exists and is not a directory the run fails with NotADirectoryError and
\* changes nothing for the plugin; copy twice is copy once.
C4_DirectoryReplaced ==
    /\ (CopyReached /\ isdir(fs0, plugin_output_path)) => Replaced
    /\ (CopyReached /\ exists(fs0, plugin_output_path) /\ ~ isdir(fs0, plugin_output_path)) =>
          /\ pc = "failed"
          /\ err = "NotADirectoryError"
          /\ Untouched(i)
    /\ CopyTwice

C4_Witness ==
    /\ pc = "done"
    /\ mode = "copy"
    /\ exists(fs0, PluginOut(2) \o <<"stale.txt">>)
    /\ ~ exists(fs, PluginOut(2) \o <<"stale.txt">>)
    /\ fs[PluginOut(2) \o <<"sub", "b.txt">>] = File(2)

\* The output of the k-th plugin is complete.
Complete(k) ==
    IF mode = "copy"
    THEN \A p \in DOMAIN fs : IsUnder(p, PluginOut(k)) =>
            fs[p] = fs[PluginBuild(k) \o Rel(p, PluginOut(k))]
    ELSE LET es == fs[PluginZip(k)].entries
         IN  {[name |-> basename(p), data |-> fs[p].data] : p \in FilesBelow(fs, PluginBuild(k))}
                = {es[n] : n \in 1..Len(es)}

\* A step changes nothing but <destination>/P (copy) or <destination>/P.zip
\* (pack) of the plugin being processed.
FrameStep ==
    \A p \in DOMAIN fs : fs'[p] # fs[p] =>
        /\ pc \in {"dispatch", "copytree", "walk"}
        /\ \/ mode = "copy" /\ IsUnder(p, PluginOut(i))
           \/ mode = "pack" /\ p = PluginZip(i)

\* The source tree, the destination directory itself and its entries that
\* are not a plugin's are as at the start of the run; when the run fails at
\* a plugin, the outputs of the plugins before it are complete.
FrameInv ==
    /\ \A p \in DOMAIN fs :
          (\A k \in 1..Len(plugins) :
              ~ IsUnder(p, <<"out", plugins[k]>>) /\ p # <<"out", plugins[k] \o ".zip">>)
          => fs[p] = fs0[p]
    /\ (pc = "failed" /\ i >= 1) => \A j \in 1..(i - 1) : Complete(j)

\* C10: at every point of every run the source tree and the destination
\* entries that belong to no plugin are unchanged, every step changes only
\* the output of the plugin being processed (so the outputs of the plugins
\* before it stay as produced), and when the run fails at a plugin the
\* complete outputs of the plugins before it are in the destination.
C10_Frame == [] FrameInv /\ [][FrameStep]_vars

C10_Witness ==
    /\ pc = "failed"
    /\ i = 2
    /\ mode = "copy"
    /\ fs[PluginOut(1) \o <<"a.txt">>] = File(1)
    /\ exists(fs0, PluginOut(1) \o <<"stale.txt">>)
    /\ fs[Other] = File(6)

====
